---- MODULE Spec2Model ----
(***************************************************************************)
(* Model of the CORD-19 metadata explorer: the batch script                *)
(* Data_Analysis.py and the Streamlit dashboard streamlit_app.py.          *)
(*                                                                         *)
(* A DataFrame is a record [columns, rows]; a row is a record with one     *)
(* field per column plus `index`, the pandas index label.  Every text cell *)
(* is a sequence of one-character strings, so that lower(), re.sub() and   *)
(* split() act on characters.  pandas semantics are those of pandas 2.x,   *)
(* the only line on which both files run (format='mixed' needs >= 2.0,     *)
(* the chained inplace fillna needs < 3.0).                                *)
(***************************************************************************)
EXTENDS Integers, Sequences, FiniteSets, TLC

VARIABLES
    variant,                 \* "batch" (Data_Analysis.py) or "app" (streamlit_app.py)
    source,                  \* what is on disk at metadata.csv
    pc,                      \* position of the running script
    df,                      \* the loaded DataFrame (unbound until read_csv returns)
    df_cleaned,              \* the DataFrame being cleaned
    df_filtered,             \* streamlit_app.py: the year-filtered view
    year_range,              \* streamlit_app.py: value returned by st.slider
    slider,                  \* streamlit_app.py: the widget state kept by the session
    top_journals,            \* result of the journal count
    publications_over_time,  \* result of the per-year count
    top_words,               \* result of the word count
    out,                     \* what this run has printed or rendered, in order
    exc,                     \* the exception that ended the run, if one did
    call                     \* arguments of the aggregate under study (aggregate specifications)

vars == <<variant, source, pc, df, df_cleaned, df_filtered, year_range, slider,
          top_journals, publications_over_time, top_words, out, exc, call>>

-----------------------------------------------------------------------------
(* Bounds of the model *)

\* rows of metadata.csv in the pipeline specification
MaxRows == 3
\* rows of the journal column in the small journal tables
MaxJournalRows == 4
\* distinct journals of the wide journal tables (one more than the head(10) cut)
NumJournals == 11
\* rows of the table in the yearly-count specification
MaxYearRows == 4
\* rows of the table in the word-count specification
MaxTextRows == 2

-----------------------------------------------------------------------------
(* Cell values *)

\* the missing value; read_csv yields it for an empty cell
NaN == <<"NaN">>
\* the missing timestamp
NaT == [year |-> 0, month |-> 0, day |-> 0]

isna(v) == v = NaN

\* 'Unknown Author'
UnknownAuthor ==
    <<"U","n","k","n","o","w","n"," ","A","u","t","h","o","r">>
\* 'Unknown Journal'
UnknownJournal ==
    <<"U","n","k","n","o","w","n"," ","J","o","u","r","n","a","l">>
\* 'Lancet'
Lancet ==
    <<"L","a","n","c","e","t">>
\* 'Nature'
Nature ==
    <<"N","a","t","u","r","e">>
\* 'Smith J'
SmithJ ==
    <<"S","m","i","t","h"," ","J">>
\* 'PMC'
SourcePMC ==
    <<"P","M","C">>
\* 'http://x'
UrlX ==
    <<"h","t","t","p",":","/","/","x">>
\* 'ug7v899j'
UidX ==
    <<"u","g","7","v","8","9","9","j">>

\* 'The virus spreads.'
TitleScenario ==
    <<"T","h","e"," ","v","i","r","u","s"," ","s","p","r","e","a","d","s",".">>
\* 'THE VIRUS IS NEW.'
AbstractScenario ==
    <<"T","H","E"," ","V","I","R","U","S"," ","I","S"," ","N","E","W",".">>
\* 'cat dog fox hen owl pig rat yak bat cow elk ant'
TextAnimals ==
    <<"c","a","t"," ","d","o","g"," ","f","o","x"," ","h","e","n"," ","o","w","l"," ","p","i","g"," ","r","a","t"," ","y","a","k"," ","b","a","t"," ","c","o","w"," ","e","l","k"," ","a","n","t">>
\* 'rat cat rat cat dog'
TextTies ==
    <<"r","a","t"," ","c","a","t"," ","r","a","t"," ","c","a","t"," ","d","o","g">>
\* 'COVID-19 in 2020: SARS-CoV-2 data'
TextCovid ==
    <<"C","O","V","I","D","-","1","9"," ","i","n"," ","2","0","2","0",":"," ","S","A","R","S","-","C","o","V","-","2"," ","d","a","t","a">>
\* 'We x-y it\tis a b-c-d of'
TextShort ==
    <<"W","e"," ","x","-","y"," ","i","t","\t","i","s"," ","a"," ","b","-","c","-","d"," ","o","f">>
\* 'Virus study'
TitleVirus ==
    <<"V","i","r","u","s"," ","s","t","u","d","y">>
\* 'A virus spreads'
AbstractVirus ==
    <<"A"," ","v","i","r","u","s"," ","s","p","r","e","a","d","s">>
\* '2018-05-01'
DateYmd2018 ==
    <<"2","0","1","8","-","0","5","-","0","1">>
\* '2020'
DateY2020 ==
    <<"2","0","2","0">>
\* '2020-03-15'
DateYmd2020 ==
    <<"2","0","2","0","-","0","3","-","1","5">>
\* 'unknown'
DateBad ==
    <<"u","n","k","n","o","w","n">>
\* '2019-13-01'
DateBadMonth ==
    <<"2","0","1","9","-","1","3","-","0","1">>

\* Data_Analysis.py stop words
manual_stop_words ==
    { <<"t","h","e">>,
     <<"a","n","d">>,
     <<"t","o">>,
     <<"o","f">>,
     <<"i","n">>,
     <<"i","s">>,
     <<"a">>,
     <<"w","i","t","h">>,
     <<"f","o","r">>,
     <<"w","a","s">>,
     <<"a","s">>,
     <<"a","r","e">>,
     <<"o","n">>,
     <<"t","h","i","s">>,
     <<"w","e">>,
     <<"f","r","o","m">>,
     <<"o","r">>,
     <<"b","y">>,
     <<"a","t">>,
     <<"t","h","a","t">>,
     <<"w","e","r","e">>,
     <<"a","n">>,
     <<"b","e">>,
     <<"c","a","n">>,
     <<"h","a","s">>,
     <<"o","u","r">>,
     <<"h","a","v","e">>,
     <<"r","e","s","u","l","t","s">>,
     <<"d","a","t","a">>,
     <<"s","t","u","d","y">>,
     <<"n","e","w">>,
     <<"a","l","s","o">>,
     <<"w","h","i","c","h">>,
     <<"m","a","y">>,
     <<"t","h","e","s","e">>,
     <<"m","o","r","e">>,
     <<"o","n","e">>,
     <<"a","l","l">>,
     <<"r","e","s","e","a","r","c","h">>,
     <<"u","s","e","d">>,
     <<"p","a","p","e","r">>,
     <<"f","o","u","n","d">>,
     <<"t","w","o">>,
     <<"u","s","i","n","g">>,
     <<"a","n","a","l","y","s","i","s">>,
     <<"s","h","o","w","e","d">>,
     <<"b","e","e","n">>,
     <<"c","o","u","l","d">>,
     <<"o","t","h","e","r">>,
     <<"p","o","t","e","n","t","i","a","l">>,
     <<"t","i","m","e">>,
     <<"i","n","f","e","c","t","i","o","n">>,
     <<"f","i","g">>,
     <<"f","i","g","u","r","e">> }

\* streamlit_app.py adds three words to the same list
AppExtraStopWords ==
    { <<"c","o","v","i","d">>,
     <<"s","a","r","s">>,
     <<"m","e","r","s">> }

app_manual_stop_words == manual_stop_words \cup AppExtraStopWords

\* stop words of the worked example
ScenarioStopWords ==
    { <<"t","h","e">>, <<"i","s">>, <<"n","e","w">> }

-----------------------------------------------------------------------------
(* Python text primitives used by tokenize_and_clean *)

UpperCase ==
    <<"A","B","C","D","E","F","G","H","I","J","K","L","M",
      "N","O","P","Q","R","S","T","U","V","W","X","Y","Z">>

LowerCase ==
    <<"a","b","c","d","e","f","g","h","i","j","k","l","m",
      "n","o","p","q","r","s","t","u","v","w","x","y","z">>

\* the character class a-z
IsAZ(c) == \E i \in 1..26 : LowerCase[i] = c

\* the character class \s, and the separators of str.split()
IsSpace(c) == c \in {" ", "\t", "\n", "\r"}

\* str.lower() on one character
LowerChar(c) ==
    IF \E i \in 1..26 : UpperCase[i] = c
    THEN LowerCase[CHOOSE i \in 1..26 : UpperCase[i] = c]
    ELSE c

\* text.lower()
str_lower(text) == [i \in 1..Len(text) |-> LowerChar(text[i])]

\* re.sub(r'[^a-z\s]', '', text)
re_sub(text) == SelectSeq(text, LAMBDA c : IsAZ(c) \/ IsSpace(c))

RECURSIVE SplitFrom(_, _, _, _)
SplitFrom(text, i, cur, acc) ==
    IF i > Len(text)
    THEN IF cur = <<>> THEN acc ELSE Append(acc, cur)
    ELSE IF IsSpace(text[i])
         THEN SplitFrom(text, i + 1, <<>>, IF cur = <<>> THEN acc ELSE Append(acc, cur))
         ELSE SplitFrom(text, i + 1, Append(cur, text[i]), acc)

\* text.split(): the maximal runs of non-whitespace characters, in order
str_split(text) == SplitFrom(text, 1, <<>>, <<>>)

\* minimum token length kept is one more than this
MinLenExclusive == 2

\* mutant: two-letter words are kept
tokenize_and_clean_len1(text) ==
    SelectSeq(str_split(re_sub(str_lower(text))), LAMBDA word : Len(word) > 1)

tokenize_and_clean(text) ==
    SelectSeq(str_split(re_sub(str_lower(text))), LAMBDA word : Len(word) > MinLenExclusive)

-----------------------------------------------------------------------------
(* Counting: collections.Counter and pandas value_counts *)

Min(a, b) == IF a < b THEN a ELSE b

RECURSIVE Flatten(_)
Flatten(ss) == IF ss = <<>> THEN <<>> ELSE Head(ss) \o Flatten(Tail(ss))

\* the positions at which a value occurs for the first time
FirstPositions(xs) == {i \in 1..Len(xs) : \A j \in 1..(i - 1) : xs[j] # xs[i]}

\* the distinct values of xs in order of first occurrence
FirstSeen(xs) ==
    LET fp == FirstPositions(xs)
    IN  [k \in 1..Cardinality(fp) |->
            xs[CHOOSE p \in fp : Cardinality({q \in fp : q <= p}) = k]]

Occurrences(xs, k) == Cardinality({i \in 1..Len(xs) : xs[i] = k})

\* Counter(xs): one (key, count) entry per distinct element, in order of first insertion
Counter(xs) ==
    LET ks == FirstSeen(xs)
    IN  [i \in 1..Len(ks) |-> [key |-> ks[i], count |-> Occurrences(xs, ks[i])]]

MaxCount(items) ==
    CHOOSE m \in {items[i].count : i \in 1..Len(items)} :
        \A i \in 1..Len(items) : items[i].count <= m

RemoveAt(s, i) == SubSeq(s, 1, i - 1) \o SubSeq(s, i + 1, Len(s))

\* mutant: of equal counts the entry inserted last comes first
RECURSIVE nlargest_ties_last(_, _)
nlargest_ties_last(n, items) ==
    IF n = 0 \/ items = <<>> THEN <<>>
    ELSE LET m == MaxCount(items)
             i == CHOOSE j \in 1..Len(items) :
                      /\ items[j].count = m
                      /\ \A k \in (j + 1)..Len(items) : items[k].count # m
         IN  <<items[i]>> \o nlargest_ties_last(n - 1, RemoveAt(items, i))

\* heapq.nlargest(n, items, key=count): equal to sorted(items, key=count, reverse=True)[:n],
\* a stable sort, so equal counts keep insertion order
RECURSIVE nlargest(_, _)
nlargest(n, items) ==
    IF n = 0 \/ items = <<>> THEN <<>>
    ELSE LET m == MaxCount(items)
             i == CHOOSE j \in 1..Len(items) :
                      /\ items[j].count = m
                      /\ \A k \in 1..(j - 1) : items[k].count # m
         IN  <<items[i]>> \o nlargest(n - 1, RemoveAt(items, i))

\* Counter.most_common(n)
most_common(counter, n) == nlargest(n, counter)

\* mutant: the counts are left in order of first appearance (sort=False)
sort_values_desc_unsorted(items) == {items}

\* Series.sort_values(ascending=False) with the default kind='quicksort': the
\* entries in descending order of count; numpy's quicksort is not stable, so
\* every order of the entries with equal counts is a possible outcome
RECURSIVE sort_values_desc(_)
sort_values_desc(items) ==
    IF items = <<>> THEN {<<>>}
    ELSE LET m == MaxCount(items)
         IN  UNION { { <<items[i]>> \o rest : rest \in sort_values_desc(RemoveAt(items, i)) } :
                     i \in {j \in 1..Len(items) : items[j].count = m} }

\* the non-missing values of a text column
notna_values(values) == SelectSeq(values, LAMBDA v : ~isna(v))

\* Series.value_counts() of a column without missing values: the distinct values in
\* order of first appearance, counted, then sorted by count
value_counts(values) == sort_values_desc(Counter(values))

\* mutant: the series is left in the order value_counts gave it
sort_index_unsorted(items) == items

\* Series.sort_index(): ascending by key; the keys of a value_counts are distinct
RECURSIVE sort_index(_)
sort_index(items) ==
    IF items = <<>> THEN <<>>
    ELSE LET i == CHOOSE j \in 1..Len(items) :
                      \A k \in 1..Len(items) : items[j].key <= items[k].key
         IN  <<items[i]>> \o sort_index(RemoveAt(items, i))

\* Series.head(n) / DataFrame.head(n)
head(s, n) == SubSeq(s, 1, Min(n, Len(s)))

\* number of entries kept by .head(10) and .most_common(10)
TopN == 10

-----------------------------------------------------------------------------
(* Date parsing: pandas.to_datetime(..., errors='coerce') *)

Digits == <<"0","1","2","3","4","5","6","7","8","9">>

IsDigit(c) == \E i \in 1..10 : Digits[i] = c

DigitVal(c) == (CHOOSE i \in 1..10 : Digits[i] = c) - 1

RECURSIVE ToInt(_)
ToInt(cs) == IF cs = <<>> THEN 0 ELSE 10 * ToInt(SubSeq(cs, 1, Len(cs) - 1)) + DigitVal(cs[Len(cs)])

AllDigits(cs) == \A i \in 1..Len(cs) : IsDigit(cs[i])

IsLeap(y) == (y % 4 = 0 /\ y % 100 # 0) \/ y % 400 = 0

DaysInMonth(y, m) ==
    IF m = 2 THEN (IF IsLeap(y) THEN 29 ELSE 28)
    ELSE IF m \in {4, 6, 9, 11} THEN 30 ELSE 31

FormatYmd == "%Y-%m-%d"
FormatY == "%Y"
NoFormat == "none"

\* strptime with exact matching; NaT where the text does not match the format
strptime(s, fmt) ==
    IF fmt = FormatY
    THEN IF Len(s) = 4 /\ AllDigits(s) /\ ToInt(s) >= 1
         THEN [year |-> ToInt(s), month |-> 1, day |-> 1]
         ELSE NaT
    ELSE IF fmt = FormatYmd
    THEN IF /\ Len(s) = 10
            /\ AllDigits(SubSeq(s, 1, 4)) /\ s[5] = "-"
            /\ AllDigits(SubSeq(s, 6, 7)) /\ s[8] = "-"
            /\ AllDigits(SubSeq(s, 9, 10))
         THEN LET y == ToInt(SubSeq(s, 1, 4))
                  m == ToInt(SubSeq(s, 6, 7))
                  d == ToInt(SubSeq(s, 9, 10))
              IN  IF y >= 1 /\ m \in 1..12 /\ d \in 1..DaysInMonth(y, m)
                  THEN [year |-> y, month |-> m, day |-> d]
                  ELSE NaT
         ELSE NaT
    ELSE NaT

\* the format pandas guesses from one text (the formats of publish_time in the corpus)
guess_datetime_format(s) ==
    IF strptime(s, FormatYmd) # NaT THEN FormatYmd
    ELSE IF strptime(s, FormatY) # NaT THEN FormatY
    ELSE NoFormat

\* one element parsed on its own: its own format is guessed, NaT if there is none
parse_single(s) ==
    IF isna(s) THEN NaT ELSE strptime(s, guess_datetime_format(s))

FirstNonNull(values) ==
    IF \E i \in 1..Len(values) : ~isna(values[i])
    THEN values[CHOOSE i \in 1..Len(values) :
                    ~isna(values[i]) /\ \A k \in 1..(i - 1) : isna(values[k])]
    ELSE NaN

\* to_datetime(values, errors='coerce', format='mixed'): every element is parsed on its own.
\* to_datetime(values, errors='coerce'): the format is guessed from the first non-null
\* element and applied to all of them; an element in another format becomes NaT.  When no
\* format can be guessed pandas falls back to parsing each element on its own.
to_datetime(values, mixed) ==
    LET first == FirstNonNull(values)
        fmt == IF isna(first) THEN NoFormat ELSE guess_datetime_format(first)
    IN  [i \in 1..Len(values) |->
            IF isna(values[i]) THEN NaT
            ELSE IF mixed \/ fmt = NoFormat THEN parse_single(values[i])
            ELSE strptime(values[i], fmt)]

-----------------------------------------------------------------------------
(* DataFrames *)

Range(s) == {s[i] : i \in 1..Len(s)}

\* a name that is not bound to a DataFrame yet
Unbound == [bound |-> FALSE, columns |-> {}, rows |-> <<>>]

Frame(cols, rs) == [bound |-> TRUE, columns |-> cols, rows |-> rs]

\* pd.DataFrame()
EmptyFrame == Frame({}, <<>>)

\* DataFrame.empty: some axis has length 0
empty(d) == d.columns = {} \/ d.rows = <<>>

Column(d, c) == [i \in 1..Len(d.rows) |-> d.rows[i][c]]

IndexOf(d) == [i \in 1..Len(d.rows) |-> d.rows[i].index]

ROWS_TO_LOAD == 50000

COLUMNS_TO_KEEP ==
    {"title", "abstract", "publish_time", "authors", "journal", "source_x", "url"}

\* pd.read_csv(file_path, nrows=n) on a readable file: the first n rows
read_csv(src, n) == Frame(src.columns, head(src.rows, n))

\* df[COLUMNS_TO_KEEP] raises KeyError when a listed column is absent
HasColumns(d, cols) == cols \subseteq d.columns

\* df[COLUMNS_TO_KEEP].copy()
project(d, cols) ==
    Frame(cols, [i \in 1..Len(d.rows) |-> [c \in cols \cup {"index"} |-> d.rows[i][c]]])

\* d[col] = d[col].fillna(value)
fillna(d, col, value) ==
    Frame(d.columns,
          [i \in 1..Len(d.rows) |->
              IF isna(d.rows[i][col]) THEN [d.rows[i] EXCEPT ![col] = value] ELSE d.rows[i]])

\* d.dropna(subset=[col], inplace=True) on a text column
dropna(d, col) == Frame(d.columns, SelectSeq(d.rows, LAMBDA r : ~isna(r[col])))

\* d['publish_time'] = pd.to_datetime(d['publish_time'], errors='coerce'[, format='mixed'])
convert_publish_time(d, mixed) ==
    LET ts == to_datetime(Column(d, "publish_time"), mixed)
    IN  Frame(d.columns, [i \in 1..Len(d.rows) |-> [d.rows[i] EXCEPT !["publish_time"] = ts[i]]])

\* d.dropna(subset=['publish_time'], inplace=True) once the column holds timestamps
dropna_time(d) == Frame(d.columns, SelectSeq(d.rows, LAMBDA r : r["publish_time"] # NaT))

\* mutant: the month is taken for the year
add_publication_year_month(d) ==
    Frame(d.columns \cup {"publication_year"},
          [i \in 1..Len(d.rows) |->
              d.rows[i] @@ ("publication_year" :> d.rows[i]["publish_time"].month)])

\* d['publication_year'] = d['publish_time'].dt.year
add_publication_year(d) ==
    Frame(d.columns \cup {"publication_year"},
          [i \in 1..Len(d.rows) |->
              d.rows[i] @@ ("publication_year" :> d.rows[i]["publish_time"].year)])

\* title + ' ' + abstract (Data_Analysis.py) and title + ' ' + abstract.fillna('')
\* (streamlit_app.py); a missing operand gives a missing sum
full_text(r, app) ==
    IF isna(r["title"]) THEN NaN
    ELSE IF isna(r["abstract"]) THEN (IF app THEN r["title"] \o <<" ">> ELSE NaN)
    ELSE r["title"] \o <<" ">> \o r["abstract"]

\* d['full_text'] = ...
add_full_text(d, app) ==
    Frame(d.columns \cup {"full_text"},
          [i \in 1..Len(d.rows) |-> d.rows[i] @@ ("full_text" :> full_text(d.rows[i], app))])

\* the loop over d['full_text']: isinstance(text, str) skips the missing values
all_words(d) ==
    Flatten([i \in 1..Len(d.rows) |->
                IF isna(d.rows[i]["full_text"]) THEN <<>>
                ELSE tokenize_and_clean(d.rows[i]["full_text"])])

\* Counter(filtered_words).most_common(n)
top_words_of(d, n, stop_words) ==
    most_common(Counter(SelectSeq(all_words(d), LAMBDA word : word \notin stop_words)), n)

\* mutant: the rows filled with the sentinel are counted too
top_journals_of_with_sentinel(d) ==
    {head(vc, TopN) : vc \in value_counts(notna_values(Column(d, "journal")))}

\* d[d['journal'] != 'Unknown Journal']['journal'].value_counts().head(10): the possible
\* results; value_counts does not count missing values (dropna=True)
top_journals_of(d) ==
    LET kept == SelectSeq(Column(d, "journal"), LAMBDA j : j # UnknownJournal)
    IN  {head(vc, TopN) : vc \in value_counts(notna_values(kept))}

\* d['publication_year'].value_counts().sort_index()
publications_over_time_of(d) ==
    {sort_index(vc) : vc \in value_counts(Column(d, "publication_year"))}

\* d[(d.publication_year >= lo) & (d.publication_year <= hi)]
filter_years(d, lo, hi) ==
    Frame(d.columns,
          SelectSeq(d.rows, LAMBDA r : r["publication_year"] >= lo /\ r["publication_year"] <= hi))

\* the cleaning of Data_Analysis.py lines 46-68 and of load_and_clean_data lines 23-37
clean(d, mixed) ==
    add_publication_year(
        dropna_time(
            convert_publish_time(
                dropna(fillna(fillna(project(d, COLUMNS_TO_KEEP), "authors", UnknownAuthor),
                              "journal", UnknownJournal),
                       "abstract"),
                mixed)))

-----------------------------------------------------------------------------
(* The file on disk *)

AllColumns == COLUMNS_TO_KEEP \cup {"cord_uid"}

Cells(t, a, p, au, j) ==
    [cord_uid |-> UidX, title |-> t, abstract |-> a, publish_time |-> p,
     authors |-> au, journal |-> j, source_x |-> SourcePMC, url |-> UrlX]

\* the kinds of rows a metadata.csv holds
RowKinds ==
    { Cells(TitleVirus,    AbstractVirus,    DateYmd2018,  SmithJ, Lancet),
      Cells(TitleVirus,    AbstractVirus,    DateY2020,    NaN,    NaN),
      Cells(TitleScenario, AbstractScenario, DateYmd2020,  SmithJ, Nature),
      Cells(TitleVirus,    NaN,              DateYmd2018,  NaN,    Lancet),
      Cells(TitleVirus,    AbstractVirus,    DateBad,      SmithJ, NaN),
      Cells(TitleVirus,    AbstractVirus,    NaN,          NaN,    Nature),
      Cells(NaN,           AbstractVirus,    DateYmd2018,  SmithJ, UnknownJournal),
      Cells(TitleVirus,    AbstractVirus,    DateBadMonth, SmithJ, Lancet) }

\* read_csv labels the rows 0, 1, 2, ...
WithIndex(cells) == [i \in 1..Len(cells) |-> cells[i] @@ ("index" :> i - 1)]

Tables(kinds, maxLen) ==
    UNION { {WithIndex(t) : t \in [1..n -> kinds]} : n \in 0..maxLen }

WithoutColumn(r, col) == [c \in (DOMAIN r) \ {col} |-> r[c]]

Sources ==
    { [kind |-> "missing", columns |-> {}, rows |-> <<>>],
      [kind |-> "unreadable", columns |-> {}, rows |-> <<>>] }
    \cup { [kind |-> "csv", columns |-> AllColumns, rows |-> t] : t \in Tables(RowKinds, MaxRows) }
    \cup { [kind |-> "csv", columns |-> AllColumns \ {"journal"},
            rows |-> [i \in 1..Len(t) |-> WithoutColumn(t[i], "journal")]] :
           t \in Tables(RowKinds, 1) }

NoCall == [n |-> 0, stop_words |-> {}]

NoRange == <<>>

-----------------------------------------------------------------------------
(* Data_Analysis.py: the statements of the script, in order *)

Init ==
    /\ variant \in {"batch", "app"}
    /\ source \in Sources
    /\ pc = "load"
    /\ df = Unbound
    /\ df_cleaned = Unbound
    /\ df_filtered = Unbound
    /\ year_range = NoRange
    /\ slider = NoRange
    /\ top_journals = <<>>
    /\ publications_over_time = <<>>
    /\ top_words = <<>>
    /\ out = <<>>
    /\ exc = "none"
    /\ call = NoCall

\* lines 7-32: the try block around read_csv; both handlers print and fall through
BatchLoad ==
    /\ variant = "batch" /\ pc = "load"
    /\ IF source.kind = "missing"
       THEN /\ out' = out \o <<"print: not found">>
            /\ df' = df
       ELSE IF source.kind = "unreadable"
       THEN /\ out' = out \o <<"print: unexpected error">>
            /\ df' = df
       ELSE /\ out' = out \o <<"print: loading successful">>
            /\ df' = read_csv(source, ROWS_TO_LOAD)
    /\ pc' = "project"
    /\ UNCHANGED <<variant, source, df_cleaned, df_filtered, year_range, slider,
                   top_journals, publications_over_time, top_words, exc, call>>

\* lines 46-48: df is read whether or not the load bound it
BatchProject ==
    /\ variant = "batch" /\ pc = "project"
    /\ IF ~df.bound
       THEN /\ exc' = "NameError" /\ pc' = "crashed"
            /\ UNCHANGED <<df_cleaned, out>>
       ELSE IF ~HasColumns(df, COLUMNS_TO_KEEP)
       THEN /\ exc' = "KeyError" /\ pc' = "crashed"
            /\ UNCHANGED <<df_cleaned, out>>
       ELSE /\ df_cleaned' = project(df, COLUMNS_TO_KEEP)
            /\ out' = out \o <<"print: column reduction">>
            /\ pc' = "fillna"
            /\ exc' = exc
    /\ UNCHANGED <<variant, source, df, df_filtered, year_range, slider,
                   top_journals, publications_over_time, top_words, call>>

\* lines 52-53
BatchFillna ==
    /\ variant = "batch" /\ pc = "fillna"
    /\ df_cleaned' = fillna(fillna(df_cleaned, "authors", UnknownAuthor), "journal", UnknownJournal)
    /\ pc' = "dropna_abstract"
    /\ UNCHANGED <<variant, source, df, df_filtered, year_range, slider,
                   top_journals, publications_over_time, top_words, out, exc, call>>

\* lines 56-58
BatchDropAbstract ==
    /\ variant = "batch" /\ pc = "dropna_abstract"
    /\ df_cleaned' = dropna(df_cleaned, "abstract")
    /\ out' = out \o <<"print: shape after abstract drop">>
    /\ pc' = "to_datetime"
    /\ UNCHANGED <<variant, source, df, df_filtered, year_range, slider,
                   top_journals, publications_over_time, top_words, exc, call>>

\* line 62: no format argument
BatchToDatetime ==
    /\ variant = "batch" /\ pc = "to_datetime"
    /\ df_cleaned' = convert_publish_time(df_cleaned, FALSE)
    /\ pc' = "dropna_time"
    /\ UNCHANGED <<variant, source, df, df_filtered, year_range, slider,
                   top_journals, publications_over_time, top_words, out, exc, call>>

\* line 65
BatchDropTime ==
    /\ variant = "batch" /\ pc = "dropna_time"
    /\ df_cleaned' = dropna_time(df_cleaned)
    /\ pc' = "year"
    /\ UNCHANGED <<variant, source, df, df_filtered, year_range, slider,
                   top_journals, publications_over_time, top_words, out, exc, call>>

\* lines 68-75
BatchYear ==
    /\ variant = "batch" /\ pc = "year"
    /\ df_cleaned' = add_publication_year(df_cleaned)
    /\ out' = out \o <<"print: final shape">>
    /\ pc' = "journals"
    /\ UNCHANGED <<variant, source, df, df_filtered, year_range, slider,
                   top_journals, publications_over_time, top_words, exc, call>>

\* lines 80-98
BatchJournals ==
    /\ variant = "batch" /\ pc = "journals"
    /\ top_journals' \in top_journals_of(df_cleaned)
    /\ out' = out \o <<"chart: journals">>
    /\ pc' = "over_time"
    /\ UNCHANGED <<variant, source, df, df_cleaned, df_filtered, year_range, slider,
                   publications_over_time, top_words, exc, call>>

\* lines 100-116
BatchOverTime ==
    /\ variant = "batch" /\ pc = "over_time"
    /\ publications_over_time' \in publications_over_time_of(df_cleaned)
    /\ out' = out \o <<"chart: over time">>
    /\ pc' = "words"
    /\ UNCHANGED <<variant, source, df, df_cleaned, df_filtered, year_range, slider,
                   top_journals, top_words, exc, call>>

\* lines 122-177
BatchWords ==
    /\ variant = "batch" /\ pc = "words"
    /\ df_cleaned' = add_full_text(df_cleaned, FALSE)
    /\ top_words' = top_words_of(df_cleaned', TopN, manual_stop_words)
    /\ out' = out \o <<"chart: words">>
    /\ pc' = "done"
    /\ UNCHANGED <<variant, source, df, df_filtered, year_range, slider,
                   top_journals, publications_over_time, exc, call>>

-----------------------------------------------------------------------------
(* streamlit_app.py: one run of the script, and the reruns a widget change starts *)

\* mutant: the except branch returns the empty frame without st.error
load_and_clean_data_silent ==
    /\ variant = "app" /\ pc = "load"
    /\ IF source.kind # "csv"
       THEN /\ out' = out \o <<"st.title", "st.write">>
            /\ df_cleaned' = EmptyFrame
            /\ pc' = "empty_check"
            /\ exc' = exc
       ELSE IF ~HasColumns(read_csv(source, ROWS_TO_LOAD), COLUMNS_TO_KEEP)
       THEN /\ out' = out \o <<"st.title", "st.write", "st.exception">>
            /\ exc' = "KeyError"
            /\ pc' = "crashed"
            /\ df_cleaned' = df_cleaned
       ELSE /\ out' = out \o <<"st.title", "st.write">>
            /\ df_cleaned' = clean(read_csv(source, ROWS_TO_LOAD), TRUE)
            /\ pc' = "empty_check"
            /\ exc' = exc
    /\ UNCHANGED <<variant, source, df, df_filtered, year_range, slider,
                   top_journals, publications_over_time, top_words, call>>

\* load_and_clean_data(FILE_PATH), lines 12-39, called at line 50 after the
\* page title and description.  st.cache_data returns the stored frame on a
\* rerun and replays the st.error element; the file does not change between
\* runs, so the stored value is the value computed here.  An exception that
\* leaves the script is shown by the Streamlit runtime as an exception box.
load_and_clean_data ==
    /\ variant = "app" /\ pc = "load"
    /\ IF source.kind # "csv"
       THEN /\ out' = out \o <<"st.title", "st.write", "st.error">>
            /\ df_cleaned' = EmptyFrame
            /\ pc' = "empty_check"
            /\ exc' = exc
       ELSE IF ~HasColumns(read_csv(source, ROWS_TO_LOAD), COLUMNS_TO_KEEP)
       THEN /\ out' = out \o <<"st.title", "st.write", "st.exception">>
            /\ exc' = "KeyError"
            /\ pc' = "crashed"
            /\ df_cleaned' = df_cleaned
       ELSE /\ out' = out \o <<"st.title", "st.write">>
            /\ df_cleaned' = clean(read_csv(source, ROWS_TO_LOAD), TRUE)
            /\ pc' = "empty_check"
            /\ exc' = exc
    /\ UNCHANGED <<variant, source, df, df_filtered, year_range, slider,
                   top_journals, publications_over_time, top_words, call>>

\* lines 52-53
AppEmptyCheck ==
    /\ variant = "app" /\ pc = "empty_check"
    /\ pc' = IF empty(df_cleaned) THEN "stopped" ELSE "slider"
    /\ UNCHANGED <<variant, source, df, df_cleaned, df_filtered, year_range, slider,
                   top_journals, publications_over_time, top_words, out, exc, call>>

min_year(d) ==
    CHOOSE y \in Range(Column(d, "publication_year")) :
        \A z \in Range(Column(d, "publication_year")) : y <= z

max_year(d) ==
    CHOOSE y \in Range(Column(d, "publication_year")) :
        \A z \in Range(Column(d, "publication_year")) : y >= z

\* lines 56-72: the slider returns the session's selection, or its default on the first run
AppSlider ==
    /\ variant = "app" /\ pc = "slider"
    /\ year_range' = IF slider = NoRange
                     THEN <<min_year(df_cleaned), max_year(df_cleaned)>>
                     ELSE slider
    /\ df_filtered' = filter_years(df_cleaned, year_range'[1], year_range'[2])
    /\ out' = out \o <<"st.slider", "st.subheader">>
    /\ pc' = "journals_panel"
    /\ UNCHANGED <<variant, source, df, df_cleaned, slider,
                   top_journals, publications_over_time, top_words, exc, call>>

\* mutant: the panel draws its chart without asking whether there are rows
AppJournalsPanelUnguarded ==
    /\ variant = "app" /\ pc = "journals_panel"
    /\ top_journals' \in top_journals_of(df_filtered)
    /\ out' = out \o <<"st.header: journals", "chart: journals">>
    /\ pc' = "time_panel"
    /\ UNCHANGED <<variant, source, df, df_cleaned, df_filtered, year_range, slider,
                   publications_over_time, top_words, exc, call>>

\* lines 75-89
AppJournalsPanel ==
    /\ variant = "app" /\ pc = "journals_panel"
    /\ IF ~empty(df_filtered)
       THEN /\ top_journals' \in top_journals_of(df_filtered)
            /\ out' = out \o <<"st.header: journals", "chart: journals">>
       ELSE /\ top_journals' = top_journals
            /\ out' = out \o <<"st.header: journals", "st.write: no data">>
    /\ pc' = "time_panel"
    /\ UNCHANGED <<variant, source, df, df_cleaned, df_filtered, year_range, slider,
                   publications_over_time, top_words, exc, call>>

\* lines 93-105
AppTimePanel ==
    /\ variant = "app" /\ pc = "time_panel"
    /\ IF ~empty(df_filtered)
       THEN /\ publications_over_time' \in publications_over_time_of(df_filtered)
            /\ out' = out \o <<"st.header: over time", "chart: over time">>
       ELSE /\ publications_over_time' = publications_over_time
            /\ out' = out \o <<"st.header: over time">>
    /\ pc' = "words_panel"
    /\ UNCHANGED <<variant, source, df, df_cleaned, df_filtered, year_range, slider,
                   top_journals, top_words, exc, call>>

\* lines 109-147
AppWordsPanel ==
    /\ variant = "app" /\ pc = "words_panel"
    /\ IF ~empty(df_filtered)
       THEN /\ df_filtered' = add_full_text(df_filtered, TRUE)
            /\ top_words' = top_words_of(df_filtered', TopN, app_manual_stop_words)
            /\ out' = out \o <<"st.header: words", "chart: words">>
       ELSE /\ df_filtered' = df_filtered
            /\ top_words' = top_words
            /\ out' = out \o <<"st.header: words">>
    /\ pc' = "sample"
    /\ UNCHANGED <<variant, source, df, df_cleaned, year_range, slider,
                   top_journals, publications_over_time, exc, call>>

\* lines 151-152
AppSample ==
    /\ variant = "app" /\ pc = "sample"
    /\ out' = out \o <<"st.header: sample", "st.dataframe">>
    /\ pc' = "done"
    /\ UNCHANGED <<variant, source, df, df_cleaned, df_filtered, year_range, slider,
                   top_journals, publications_over_time, top_words, exc, call>>

\* the user drags the slider of a finished page (lines 59-64): the session keeps
\* the new selection and Streamlit runs the script again from the top
UserMovesSlider ==
    /\ variant = "app" /\ pc = "done"
    /\ \E lo \in min_year(df_cleaned)..max_year(df_cleaned) :
       \E hi \in lo..max_year(df_cleaned) :
          /\ <<lo, hi>> # year_range
          /\ slider' = <<lo, hi>>
    /\ pc' = "load"
    /\ df_cleaned' = Unbound
    /\ df_filtered' = Unbound
    /\ year_range' = NoRange
    /\ top_journals' = <<>>
    /\ publications_over_time' = <<>>
    /\ top_words' = <<>>
    /\ out' = <<>>
    /\ UNCHANGED <<variant, source, df, exc, call>>

Next ==
    \/ BatchLoad
    \/ BatchProject
    \/ BatchFillna
    \/ BatchDropAbstract
    \/ BatchToDatetime
    \/ BatchDropTime
    \/ BatchYear
    \/ BatchJournals
    \/ BatchOverTime
    \/ BatchWords
    \/ load_and_clean_data
    \/ AppEmptyCheck
    \/ AppSlider
    \/ AppJournalsPanel
    \/ AppTimePanel
    \/ AppWordsPanel
    \/ AppSample
    \/ UserMovesSlider

Spec == Init /\ [][Next]_vars


-----------------------------------------------------------------------------
(* The aggregation steps on wider tables: the scripts taken up at the         *)
(* statement that computes one aggregate, the cleaning already done.          *)

JournalName(i) == <<"J", Digits[(i \div 10) + 1], Digits[(i % 10) + 1]>>

\* the text of a year, as the format %Y writes it
YearText(y) ==
    <<Digits[(y \div 1000) + 1], Digits[((y \div 100) % 10) + 1],
      Digits[((y \div 10) % 10) + 1], Digits[(y % 10) + 1]>>

Repeat(x, n) == [i \in 1..n |-> x]

SeqsUpTo(S, maxLen) == UNION { [1..n -> S] : n \in 0..maxLen }

CsvOf(cells) == [kind |-> "csv", columns |-> AllColumns, rows |-> WithIndex(cells)]

JournalRow(j) == Cells(TitleVirus, AbstractVirus, DateYmd2018, SmithJ, j)

\* short journal columns, every order of a few values
SmallJournalColumns == SeqsUpTo({NaN, UnknownJournal, Lancet, Nature, JournalName(3)}, MaxJournalRows)

\* how often journal i may occur in a wide table
Multiplicity(i) == IF i <= 2 THEN {0, 1, 2} ELSE IF i <= 5 THEN {0, i} ELSE {i}

RECURSIVE Multiplicities(_)
Multiplicities(n) ==
    IF n = 0 THEN {<<>>}
    ELSE {Append(m, c) : m \in Multiplicities(n - 1), c \in Multiplicity(n)}

\* long journal columns: a block of rows without journal, then one block per journal
WideJournalColumns ==
    { Repeat(NaN, u) \o Flatten([i \in 1..NumJournals |-> Repeat(JournalName(i), m[i])]) :
        m \in Multiplicities(NumJournals), u \in {0, NumJournals + 1} }

JournalSources ==
    { CsvOf([i \in 1..Len(js) |-> JournalRow(js[i])]) : js \in SmallJournalColumns \cup WideJournalColumns }

YearValues == {2015, 2018, 2019, 2020}

YearSources ==
    { CsvOf([i \in 1..Len(ys) |-> Cells(TitleVirus, AbstractVirus, YearText(ys[i]), SmithJ, Lancet)]) :
        ys \in SeqsUpTo(YearValues, MaxYearRows) }

TextTitles == {NaN, TitleScenario, TextShort}

TextAbstracts == {AbstractScenario, TextAnimals, TextCovid, TextTies}

TextSources ==
    { CsvOf(cells) :
        cells \in SeqsUpTo({Cells(t, a, DateYmd2018, SmithJ, Lancet) : t \in TextTitles, a \in TextAbstracts},
                           MaxTextRows) }

\* arguments of a direct application of the word count
Calls == [n : {2, TopN}, stop_words : {ScenarioStopWords, manual_stop_words}]

BatchOutUpTo(stage) ==
    <<"print: loading successful", "print: column reduction",
      "print: shape after abstract drop", "print: final shape">>
    \o (IF stage \in {"over_time", "words"} THEN <<"chart: journals">> ELSE <<>>)
    \o (IF stage = "words" THEN <<"chart: over time">> ELSE <<>>)

AppOutUpTo(stage) ==
    <<"st.title", "st.write", "st.slider", "st.subheader">>
    \o (IF stage \in {"time_panel", "words_panel"}
        THEN <<"st.header: journals", "chart: journals">> ELSE <<>>)
    \o (IF stage = "words_panel" THEN <<"st.header: over time", "chart: over time">> ELSE <<>>)

\* the state of a script that has read and cleaned one of srcs and stands at the given
\* statement (all rows of these sources share one date format, and the app's slider is
\* at its default, the full range)
InitAt(srcs, batchStage, appStage) ==
    /\ variant \in {"batch", "app"}
    /\ source \in srcs
    /\ df_cleaned = clean(read_csv(source, ROWS_TO_LOAD), variant = "app")
    /\ variant = "app" => ~empty(df_cleaned)
    /\ df = IF variant = "batch" THEN read_csv(source, ROWS_TO_LOAD) ELSE Unbound
    /\ df_filtered = IF variant = "app"
                     THEN filter_years(df_cleaned, min_year(df_cleaned), max_year(df_cleaned))
                     ELSE Unbound
    /\ year_range = IF variant = "app"
                    THEN <<min_year(df_cleaned), max_year(df_cleaned)>> ELSE NoRange
    /\ slider = NoRange
    /\ pc = IF variant = "batch" THEN batchStage ELSE appStage
    /\ out = IF variant = "batch" THEN BatchOutUpTo(batchStage) ELSE AppOutUpTo(appStage)
    /\ IF batchStage = "journals" THEN top_journals = <<>>
       ELSE top_journals \in top_journals_of(df_cleaned)
    /\ IF batchStage = "words" THEN publications_over_time \in publications_over_time_of(df_cleaned)
       ELSE publications_over_time = <<>>
    /\ top_words = <<>>
    /\ exc = "none"

InitJournals == InitAt(JournalSources, "journals", "journals_panel") /\ call = NoCall

NextJournals == BatchJournals \/ AppJournalsPanel

SpecJournals == InitJournals /\ [][NextJournals]_vars

InitYears == InitAt(YearSources, "over_time", "time_panel") /\ call = NoCall

NextYears == BatchOverTime \/ AppTimePanel

SpecYears == InitYears /\ [][NextYears]_vars

\* the word count of lines 136-160 (streamlit_app.py 121-135) applied as a function of
\* (table, N, stop words)
TopTokens ==
    /\ pc \in {"words", "words_panel"} /\ call # NoCall
    /\ IF variant = "batch"
       THEN /\ df_cleaned' = add_full_text(df_cleaned, FALSE)
            /\ top_words' = top_words_of(df_cleaned', call.n, call.stop_words)
            /\ df_filtered' = df_filtered
       ELSE /\ df_filtered' = add_full_text(df_filtered, TRUE)
            /\ top_words' = top_words_of(df_filtered', call.n, call.stop_words)
            /\ df_cleaned' = df_cleaned
    /\ pc' = "returned"
    /\ UNCHANGED <<variant, source, df, year_range, slider,
                   top_journals, publications_over_time, out, exc, call>>

InitTokens == InitAt(TextSources, "words", "words_panel") /\ call \in Calls \cup {NoCall}

NextTokens ==
    \/ call = NoCall /\ BatchWords
    \/ call = NoCall /\ AppWordsPanel
    \/ TopTokens

SpecTokens == InitTokens /\ [][NextTokens]_vars

-----------------------------------------------------------------------------
(* What went wrong with the source, if anything *)

Failure ==
    IF source.kind = "missing" THEN "SourceNotFound"
    ELSE IF source.kind = "unreadable" THEN "SourceUnreadable"
    ELSE IF ~(COLUMNS_TO_KEEP \subseteq source.columns) THEN "SchemaMismatch"
    ELSE "none"

Rendered(e) == \E i \in 1..Len(out) : out[i] = e

Charts == {"chart: journals", "chart: over time", "chart: words"}

\* the rows read_csv delivers, as they are on disk
Loaded == head(source.rows, ROWS_TO_LOAD)

LoadedRow(idx) == Loaded[CHOOSE i \in 1..Len(Loaded) : Loaded[i].index = idx]

\* a row the Cleaner has to keep: an abstract, and a publish_time that denotes a date
Valid(r) == ~isna(r["abstract"]) /\ parse_single(r["publish_time"]) # NaT

BatchCleaning == {"fillna", "dropna_abstract", "to_datetime", "dropna_time", "year"}

BatchCleaned == {"journals", "over_time", "words", "done"}

AppCleaned == {"empty_check", "stopped", "slider", "journals_panel", "time_panel",
               "words_panel", "sample", "done"}

\* the cleaning has run to its end on a source that could be read
Cleaned ==
    /\ Failure = "none"
    /\ \/ variant = "batch" /\ pc \in BatchCleaned
       \/ variant = "app" /\ pc \in AppCleaned

-----------------------------------------------------------------------------
(* C1 *)

\* the statement that meets the failure has run
BatchFailureMet ==
    /\ pc # "load"
    /\ Failure = "SchemaMismatch" => pc # "project"

\* C1: in Data_Analysis.py each of SourceNotFound, SourceUnreadable and
\* SchemaMismatch is reported and ends the run gracefully: no cleaning,
\* aggregation or presentation step runs after it and the run does not end in
\* an unhandled exception.
C1_BatchFailureIsGraceful ==
    (variant = "batch" /\ Failure # "none") =>
        /\ exc = "none"
        /\ pc \notin BatchCleaning \cup BatchCleaned
        /\ BatchFailureMet =>
               (Rendered("print: not found") \/ Rendered("print: unexpected error"))

-----------------------------------------------------------------------------
(* C2 *)

\* C2: in streamlit_app.py each of SourceNotFound, SourceUnreadable and
\* SchemaMismatch puts a message on the page and ends the rendering: once
\* load_and_clean_data has met the failure, the run shows no slider, no chart
\* and no sample table, and goes no further than the emptiness check.
C2_AppFailureHaltsRendering ==
    (variant = "app" /\ Failure # "none" /\ pc # "load") =>
        /\ Rendered("st.error") \/ Rendered("st.exception")
        /\ \A e \in Charts \cup {"st.slider", "st.dataframe"} : ~Rendered(e)
        /\ pc \in {"empty_check", "stopped", "crashed"}

C2_Witness ==
    /\ variant = "app" /\ Failure = "SchemaMismatch" /\ pc = "crashed"
    /\ Rendered("st.exception")

-----------------------------------------------------------------------------
(* C3 *)

IsSubSeq(small, big) ==
    \E f \in [1..Len(small) -> 1..Len(big)] :
        /\ \A i \in 1..Len(small) : small[i] = big[f[i]]
        /\ \A i, j \in 1..Len(small) : i < j => f[i] < f[j]

\* C3: the Cleaner returns exactly the loaded rows that have an abstract and
\* a publish_time that denotes a date.  While the batch script cleans, the rows
\* held are loaded rows in their order; no row is dropped for a missing
\* authors or journal; and of three rows (valid, no abstract, bad date) exactly
\* the first is returned.
C3_CleanerKeepsExactlyValidRows ==
    /\ (Failure = "none" /\ variant = "batch" /\ pc \in BatchCleaning) =>
           /\ IsSubSeq(IndexOf(df_cleaned), IndexOf(Frame(AllColumns, Loaded)))
           /\ \A i \in 1..Len(Loaded) :
                  Valid(Loaded[i]) => \E j \in 1..Len(df_cleaned.rows) :
                                          df_cleaned.rows[j].index = Loaded[i].index
    /\ Cleaned =>
           IndexOf(df_cleaned) = IndexOf(Frame(AllColumns, SelectSeq(Loaded, Valid)))

-----------------------------------------------------------------------------
(* C4 *)

Filled(original, sentinel) == IF isna(original) THEN sentinel ELSE original

\* C4: after cleaning every retained row has its abstract, a publish_time that
\* is the date its text denotes, a publication_year that is the integer year
\* of that date, and authors and journal equal to the loaded value, or to the
\* sentinel exactly where the loaded value was missing.
C4_CleanedRowsAreWellFormed ==
    Cleaned =>
        \A i \in 1..Len(df_cleaned.rows) :
            LET r == df_cleaned.rows[i]
                s == LoadedRow(r.index)
            IN  /\ ~isna(r["abstract"]) /\ r["abstract"] = s["abstract"]
                /\ r["publish_time"] # NaT
                /\ r["publish_time"] = parse_single(s["publish_time"])
                /\ r["publication_year"] \in Int
                /\ r["publication_year"] = r["publish_time"].year
                /\ r["authors"] = Filled(s["authors"], UnknownAuthor)
                /\ r["journal"] = Filled(s["journal"], UnknownJournal)

C4_Witness ==
    /\ Cleaned /\ pc = "done"
    /\ \E i \in 1..Len(df_cleaned.rows) :
           /\ isna(LoadedRow(df_cleaned.rows[i].index)["journal"])
           /\ df_cleaned.rows[i]["journal"] = UnknownJournal
           /\ df_cleaned.rows[i]["authors"] = UnknownAuthor
           /\ df_cleaned.rows[i]["publication_year"] = 2020

-----------------------------------------------------------------------------
(* C5 *)

\* the slider selection leaves no row of the cleaned table
RangeExcludesAll ==
    /\ variant = "app" /\ year_range # NoRange
    /\ df_cleaned.rows # <<>>
    /\ \A i \in 1..Len(df_cleaned.rows) :
           \/ df_cleaned.rows[i]["publication_year"] < year_range[1]
           \/ df_cleaned.rows[i]["publication_year"] > year_range[2]

-----------------------------------------------------------------------------
(* The aggregates *)

\* the table an aggregate is computed from
AggTable == IF variant = "batch" THEN df_cleaned ELSE df_filtered

FirstPos(xs, k) == CHOOSE i \in 1..Len(xs) : xs[i] = k /\ \A j \in 1..(i - 1) : xs[j] # k

Keys(result) == {result[i].key : i \in 1..Len(result)}

RECURSIVE SumCounts(_)
SumCounts(result) == IF result = <<>> THEN 0 ELSE Head(result).count + SumCounts(Tail(result))

JournalsComputed ==
    \/ variant = "batch" /\ pc \in {"over_time", "words", "done"}
    \/ variant = "app" /\ pc \in {"time_panel", "words_panel", "sample", "done"} /\ ~empty(df_filtered)

YearsComputed ==
    \/ variant = "batch" /\ pc \in {"words", "done"}
    \/ variant = "app" /\ pc \in {"words_panel", "sample", "done"} /\ ~empty(df_filtered)

WordsComputed ==
    \/ variant = "batch" /\ pc = "done"
    \/ variant = "app" /\ pc \in {"sample", "done"} /\ ~empty(df_filtered)
    \/ pc = "returned"

UsedN == IF call # NoCall THEN call.n ELSE TopN

UsedStopWords ==
    IF call # NoCall THEN call.stop_words
    ELSE IF variant = "batch" THEN manual_stop_words ELSE app_manual_stop_words

\* the tokens that are counted, in the order the rows and texts give them
Stream == SelectSeq(all_words(AggTable), LAMBDA word : word \notin UsedStopWords)

-----------------------------------------------------------------------------
(* C6 *)

ScenarioInput ==
    /\ call = [n |-> 2, stop_words |-> ScenarioStopWords]
    /\ Len(AggTable.rows) = 1
    /\ AggTable.rows[1]["title"] = TitleScenario
    /\ AggTable.rows[1]["abstract"] = AbstractScenario

ScenarioResult ==
    << [key |-> <<"v","i","r","u","s">>, count |-> 2],
       [key |-> <<"s","p","r","e","a","d","s">>, count |-> 1] >>

\* entry a of a word count comes before entry b, for the token stream st
Before(st, a, b) ==
    \/ a.count > b.count
    \/ a.count = b.count /\ FirstPos(st, a.key) < FirstPos(st, b.key)

\* C6: the word count returns the N most frequent tokens, by count descending
\* and, for equal counts, in the order in which the tokens first occur in the
\* token stream; "The virus spreads. THE VIRUS IS NEW." with N = 2 and stop
\* words {the, is, new} gives [(virus, 2), (spreads, 1)].
C6_TopTokensOrder ==
    WordsComputed =>
        LET st == Stream
        IN  /\ Len(top_words) = Min(UsedN, Cardinality(Range(st)))
            /\ \A i \in 1..Len(top_words) :
                   /\ top_words[i].key \in Range(st)
                   /\ top_words[i].count = Occurrences(st, top_words[i].key)
            /\ \A i, j \in 1..Len(top_words) : i < j => Before(st, top_words[i], top_words[j])
            /\ \A w \in Range(st) \ Keys(top_words) :
                   \A i \in 1..Len(top_words) :
                       Before(st, top_words[i], [key |-> w, count |-> Occurrences(st, w)])
            /\ ScenarioInput => top_words = ScenarioResult

\* a count whose cut falls between two tokens of equal count
C6_Witness ==
    /\ WordsComputed /\ Len(top_words) = UsedN
    /\ LET st == Stream
       IN  \E w \in Range(st) \ Keys(top_words) :
               Occurrences(st, w) = top_words[Len(top_words)].count
    /\ \E i \in 1..(Len(top_words) - 1) : top_words[i].count = top_words[i + 1].count

-----------------------------------------------------------------------------
(* C7 *)

\* C7: no token of the word count is shorter than 3 characters, none holds a
\* character outside a-z, none is a stop word, and there are at most N = 10.
C7_TopTokensAreClean ==
    WordsComputed =>
        /\ Len(top_words) <= UsedN /\ UsedN <= 10
        /\ \A i \in 1..Len(top_words) :
               /\ Len(top_words[i].key) >= 3
               /\ \A k \in 1..Len(top_words[i].key) : top_words[i].key[k] \in Range(LowerCase)
               /\ top_words[i].key \notin UsedStopWords

\* ten words kept out of more, from a table whose text has capitals, hyphens,
\* a tab, one- and two-letter words and stop words
C7_Witness ==
    /\ WordsComputed /\ call = NoCall
    /\ Len(top_words) = 10 /\ Cardinality(Range(Stream)) > 10
    /\ \E i \in 1..Len(AggTable.rows) :
           AggTable.rows[i]["title"] = TextShort /\ AggTable.rows[i]["abstract"] = TextCovid

-----------------------------------------------------------------------------
(* C8 *)

JournalColumn == Column(AggTable, "journal")

\* C8: the journal count never holds "Unknown Journal", has at most 10
\* entries, no journal twice, and each entry's count is the number of rows
\* of the table with that journal.
C8_TopJournalsExcludeSentinel ==
    JournalsComputed =>
        /\ Len(top_journals) <= 10
        /\ \A i \in 1..Len(top_journals) :
               /\ top_journals[i].key # UnknownJournal
               /\ top_journals[i].count >= 1
               /\ top_journals[i].count = Occurrences(JournalColumn, top_journals[i].key)
        /\ \A i, j \in 1..Len(top_journals) :
               i # j => top_journals[i].key # top_journals[j].key

\* "Unknown Journal" is the most common value, and more than ten journals are named
C8_Witness ==
    /\ JournalsComputed /\ Len(top_journals) = 10
    /\ Cardinality(Range(JournalColumn) \ {UnknownJournal}) > 10
    /\ \A j \in Range(JournalColumn) \ {UnknownJournal} :
           Occurrences(JournalColumn, j) < Occurrences(JournalColumn, UnknownJournal)

-----------------------------------------------------------------------------
(* C9 *)

\* C9 as stated: the journal count is ordered by count descending, and two
\* journals with equal counts stand in the order in which the table first
\* names them.
C9_TiesKeepFirstEncounterOrder ==
    JournalsComputed =>
        \A i, j \in 1..Len(top_journals) :
            i < j => \/ top_journals[i].count > top_journals[j].count
                     \/ /\ top_journals[i].count = top_journals[j].count
                        /\ FirstPos(JournalColumn, top_journals[i].key)
                               < FirstPos(JournalColumn, top_journals[j].key)

\* C9 as amended: the journal count is ordered by count descending and holds
\* the min(10, number of journals) most frequent journals: no journal left out
\* has a higher count than one that is in.  The order of equal counts is open.
C9_TopJournalsByCountDescending ==
    JournalsComputed =>
        /\ \A i, j \in 1..Len(top_journals) :
               i < j => top_journals[i].count >= top_journals[j].count
        /\ Len(top_journals) = Min(10, Cardinality(Range(JournalColumn) \ {UnknownJournal}))
        /\ \A w \in (Range(JournalColumn) \ {UnknownJournal}) \ Keys(top_journals) :
               \A i \in 1..Len(top_journals) :
                   top_journals[i].count >= Occurrences(JournalColumn, w)

\* two journals of equal count, the later-named one first, above a less frequent one
C9_Witness ==
    /\ JournalsComputed
    /\ \E i, j \in 1..Len(top_journals) :
           /\ i < j
           /\ top_journals[i].count = top_journals[j].count
           /\ FirstPos(JournalColumn, top_journals[i].key)
                  > FirstPos(JournalColumn, top_journals[j].key)
    /\ top_journals[1].count > top_journals[Len(top_journals)].count

-----------------------------------------------------------------------------
(* C10 *)

YearColumn == Column(AggTable, "publication_year")

\* C10: the keys of the yearly series are exactly the years of the table, each
\* once, in ascending order, with no year added for a gap; each value is the
\* number of rows of that year, and the values sum to the row count.
C10_YearlySeries ==
    YearsComputed =>
        /\ Keys(publications_over_time) = Range(YearColumn)
        /\ \A i, j \in 1..Len(publications_over_time) :
               i < j => publications_over_time[i].key < publications_over_time[j].key
        /\ \A i \in 1..Len(publications_over_time) :
               publications_over_time[i].count
                   = Occurrences(YearColumn, publications_over_time[i].key)
        /\ SumCounts(publications_over_time) = Len(AggTable.rows)

\* years with gaps, met in descending order, one of them twice
C10_Witness ==
    /\ YearsComputed
    /\ YearColumn = <<2020, 2018, 2015, 2018>>
    /\ publications_over_time = << [key |-> 2015, count |-> 1], [key |-> 2018, count |-> 2],
                                   [key |-> 2020, count |-> 1] >>

====
